---- MODULE Spec2Model ----
(***************************************************************************)
(* A model of generate_cheatsheet.ts: the source loader, the batch loop of *)
(* run(), the per-source pipeline processSource() and the helpers it       *)
(* calls.  Strings are sequences of one-character strings, so that the     *)
(* string functions of the script (toLowerCase, replace, trim, startsWith, *)
(* path.resolve, path.basename) are computed and not assumed.              *)
(***************************************************************************)
EXTENDS Integers, Sequences, FiniteSets, TLC

(***************************************************************************)
(* Bounds of the model.                                                    *)
(***************************************************************************)
\* the largest number of positional arguments (configuration files) explored
MaxArgs == 2

(***************************************************************************)
(* String constants of the script and of the explored inputs.              *)
(***************************************************************************)
TEMP_REPO_DIR == <<"r", "e", "p", "o", "_", "t", "e", "m", "p">>
CONTAINER_OUTPUT_DIR == <<"/", "a", "p", "p", "/", "o", "u", "t", "p", "u", "t">>
SOURCES_DIR == <<".", "/", "s", "o", "u", "r", "c", "e", "s">>
\* the working directory of the container (Dockerfile: WORKDIR /app)
CWD == <<"/", "a", "p", "p">>
CHEATSHEET_SUFFIX == <<"_", "c", "h", "e", "a", "t", "s", "h", "e", "e", "t", ".", "m", "d">>
EXPECTED_HEADING == <<"#", "#", " ", "I", "n", "t", "r", "o", "d", "u", "c", "t", "i", "o", "n", " ", "f", "o", "r", " ", "t", "h", "e", " ", "L", "L", "M", " ", "A", "g", "e", "n", "t">>
ENV_ORIGIN == <<"e", "n", "v", "i", "r", "o", "n", "m", "e", "n", "t", " ", "v", "a", "r", "i", "a", "b", "l", "e", "s">>

\* explored project names: two that differ only in characters the
\* sanitisers replace, one plain, and one JSON number
NameDemo == <<"D", "e", "m", "o", ".", " ", "2">>
NameMyTool == <<"M", "y", " ", "T", "o", "o", "l", "!">>
NameMyTool2 == <<"m", "y", "_", "t", "o", "o", "l", "_">>
NameDigits == <<"5">>
RepoUrl == <<"h", "t", "t", "p", "s", ":", "/", "/", "h", "/", "r">>
DocsDir == <<"d", "o", "c", "s">>
ApiKey == <<"k", "e", "y">>

\* explored command-line arguments: absolute, dot-relative, bare file name,
\* relative with a directory component (README usage: sources/bun.json)
ArgAbs == <<"/", "c", "f", "g", "/", "a", ".", "j", "s", "o", "n">>
ArgDot == <<".", "/", "b", ".", "j", "s", "o", "n">>
ArgBare == <<"c", ".", "j", "s", "o", "n">>
ArgDir == <<"s", "o", "u", "r", "c", "e", "s", "/", "b", "u", "n", ".", "j", "s", "o", "n">>
CommandLine == <<ArgAbs, ArgDot, ArgBare, ArgDir>>

\* explored texts: extraction output and generated documents
DocsText == <<"#", " ", "D", "o", "c", "s">>
TextGood == <<"#", "#", " ", "I", "n", "t", "r", "o", "d", "u", "c", "t", "i", "o", "n", " ", "f", "o", "r", " ", "t", "h", "e", " ", "L", "L", "M", " ", "A", "g", "e", "n", "t", "\n", "A">>
TextPlain == <<" ", "O", "k", "a", "y", "\n", "#", "#", " ", "B", "\n">>
TextBlank == <<" ", "\n">>
TextEmpty == <<>>

(***************************************************************************)
(* String functions.                                                       *)
(***************************************************************************)
UpperChars == <<"A", "B", "C", "D", "E", "F", "G", "H", "I", "J", "K", "L", "M", "N", "O", "P", "Q", "R", "S", "T", "U", "V", "W", "X", "Y", "Z">>
LowerChars == <<"a", "b", "c", "d", "e", "f", "g", "h", "i", "j", "k", "l", "m", "n", "o", "p", "q", "r", "s", "t", "u", "v", "w", "x", "y", "z">>
DigitChars == {"0", "1", "2", "3", "4", "5", "6", "7", "8", "9"}

ToLowerChar(c) ==
    IF \E i \in 1..Len(UpperChars) : UpperChars[i] = c
    THEN LowerChars[CHOOSE i \in 1..Len(UpperChars) : UpperChars[i] = c]
    ELSE c

\* String.prototype.toLowerCase
toLowerCase(s) == [i \in 1..Len(s) |-> ToLowerChar(s[i])]

\* the character class [a-z0-9]
IsLowerAlnum(c) == c \in {LowerChars[i] : i \in 1..Len(LowerChars)} \cup DigitChars

\* replace(/[^a-z0-9]/g, '_'): every character outside the class, one by one
replaceEach(s) == [i \in 1..Len(s) |-> IF IsLowerAlnum(s[i]) THEN s[i] ELSE "_"]

RECURSIVE dropNonAlnum(_)
dropNonAlnum(s) ==
    IF s = <<>> \/ IsLowerAlnum(Head(s)) THEN s ELSE dropNonAlnum(Tail(s))

\* variant of replaceRuns: one "_" for every character of a run
replaceRunsPerCharacter(s) == [i \in 1..Len(s) |-> IF IsLowerAlnum(s[i]) THEN s[i] ELSE "_"]

\* replace(/[^a-z0-9]+/g, '_'): every maximal run outside the class
RECURSIVE replaceRuns(_)
replaceRuns(s) ==
    IF s = <<>> THEN <<>>
    ELSE IF IsLowerAlnum(Head(s)) THEN <<Head(s)>> \o replaceRuns(Tail(s))
    ELSE <<"_">> \o replaceRuns(dropNonAlnum(Tail(s)))

IsSpace(c) == c \in {" ", "\n", "\t", "\r"}

RECURSIVE trimStart(_)
trimStart(s) == IF s # <<>> /\ IsSpace(Head(s)) THEN trimStart(Tail(s)) ELSE s

RECURSIVE trimEnd(_)
trimEnd(s) ==
    IF s # <<>> /\ IsSpace(s[Len(s)]) THEN trimEnd(SubSeq(s, 1, Len(s) - 1)) ELSE s

\* String.prototype.trim
trim(s) == trimEnd(trimStart(s))

\* String.prototype.startsWith
startsWith(s, p) == Len(p) <= Len(s) /\ SubSeq(s, 1, Len(p)) = p

(***************************************************************************)
(* Paths.  A resolved path is the sequence of its segments below the root. *)
(***************************************************************************)
RECURSIVE Segments(_)
\* the segments of a path string, split at "/" (empty segments dropped)
Segments(s) ==
    IF s = <<>> THEN <<>>
    ELSE LET n == IF \E i \in 1..Len(s) : s[i] = "/"
                  THEN (CHOOSE i \in 1..Len(s) : s[i] = "/" /\ \A j \in 1..(i - 1) : s[j] # "/")
                  ELSE Len(s) + 1
             first == SubSeq(s, 1, n - 1)
             rest == IF n >= Len(s) THEN <<>> ELSE SubSeq(s, n + 1, Len(s))
         IN  IF first = <<>> THEN Segments(rest) ELSE <<first>> \o Segments(rest)

RECURSIVE Normalize(_, _)
\* "." is dropped and ".." removes the segment before it
Normalize(done, todo) ==
    IF todo = <<>> THEN done
    ELSE IF Head(todo) = <<".">> THEN Normalize(done, Tail(todo))
    ELSE IF Head(todo) = <<".", ".">>
         THEN Normalize(IF done = <<>> THEN done ELSE SubSeq(done, 1, Len(done) - 1), Tail(todo))
    ELSE Normalize(Append(done, Head(todo)), Tail(todo))

IsAbsolute(p) == startsWith(p, <<"/">>)

\* path.resolve(p): against the working directory unless p is absolute
pathResolve1(p) ==
    IF IsAbsolute(p) THEN Normalize(<<>>, Segments(p))
    ELSE Normalize(<<>>, Segments(CWD) \o Segments(p))

\* path.resolve(base, p): the rightmost absolute argument wins
pathResolve2(base, p) ==
    IF IsAbsolute(p) THEN Normalize(<<>>, Segments(p))
    ELSE IF IsAbsolute(base) THEN Normalize(<<>>, Segments(base) \o Segments(p))
    ELSE Normalize(<<>>, Segments(CWD) \o Segments(base) \o Segments(p))

\* path.basename of a resolved path
pathBasename(segs) == IF segs = <<>> THEN <<>> ELSE segs[Len(segs)]

\* run(): the file a positional argument names
SourceFilePath(sourceFileArg) ==
    IF startsWith(sourceFileArg, <<"/">>) \/ startsWith(sourceFileArg, <<".">>)
    THEN pathResolve1(sourceFileArg)
    ELSE pathResolve2(SOURCES_DIR, sourceFileArg)

\* processSource(): the workspace of a project name, as path segments
TempRepoPath(projectName) == <<TEMP_REPO_DIR, replaceEach(toLowerCase(projectName))>>

\* saveCheatsheet(): the output file name of a project name
CheatsheetFilename(projectName) == replaceRuns(toLowerCase(projectName)) \o CHEATSHEET_SUFFIX

(***************************************************************************)
(* JSON values and the content of a configuration file.                    *)
(***************************************************************************)
JUndefined == [t |-> "undefined", v |-> <<>>]
JString(s) == [t |-> "string", v |-> s]
JNumber(digits) == [t |-> "number", v |-> digits]

\* variant of Truthy: only a property that is absent fails the test
TruthyUnlessUndefined(j) == j.t # "undefined"

\* JavaScript truthiness of a property value
Truthy(j) ==
    CASE j.t = "undefined" -> FALSE
      [] j.t = "string" -> j.v # <<>>
      [] j.t = "number" -> j.v # <<"0">>

FileContent(kind, name, repo, path) == [kind |-> kind, name |-> name, repo |-> repo, path |-> path]
\* no file at the path
FileAbsent == FileContent("absent", JUndefined, JUndefined, JUndefined)
\* a file JSON.parse rejects
FileMalformed == FileContent("malformed", JUndefined, JUndefined, JUndefined)
\* the JSON text null: parses, and reading a property of it throws a TypeError
FileJsonNull == FileContent("null", JUndefined, JUndefined, JUndefined)
FileObject(name, repo, path) == FileContent("object", name, repo, path)

ExploredNames == {JString(NameDemo), JString(NameMyTool), JString(NameMyTool2), JNumber(NameDigits)}

FileContents ==
    {FileAbsent, FileMalformed, FileJsonNull,
     FileObject(JUndefined, JString(RepoUrl), JString(DocsDir)),
     FileObject(JString(<<>>), JString(RepoUrl), JString(DocsDir)),
     FileObject(JString(NameDemo), JUndefined, JString(DocsDir)),
     FileObject(JString(NameDemo), JString(RepoUrl), JUndefined)}
    \cup {FileObject(n, JString(RepoUrl), JString(DocsDir)) : n \in ExploredNames}

\* process.env.REPO_URL, PROJECT_NAME, DOCS_DIR: unset is the empty sequence
\* (the Dockerfile sets all three to "")
Environment(repo, name, docs) == [REPO_URL |-> repo, PROJECT_NAME |-> name, DOCS_DIR |-> docs]
EnvAllSet == Environment(RepoUrl, NameDemo, DocsDir)
EnvNoneSet == Environment(<<>>, <<>>, <<>>)
Environments ==
    {EnvAllSet, EnvNoneSet, Environment(<<>>, NameDemo, DocsDir),
     Environment(RepoUrl, <<>>, DocsDir), Environment(RepoUrl, NameDemo, <<>>)}

\* the explored argument lists: no argument, and every run of at most n
\* consecutive arguments of CommandLine (read as a cycle), so that every
\* argument form occurs first, last and next to every other position
ArgLists(n) ==
    {<<>>} \cup
    {[i \in 1..len |-> CommandLine[((first + i - 2) % Len(CommandLine)) + 1]] :
        first \in 1..Len(CommandLine), len \in 1..n}

(***************************************************************************)
(* External processes and runCommand.                                      *)
(***************************************************************************)
\* what spawnSync does: it throws when the executable cannot be started,
\* and otherwise reports success, stdout, stderr and the exit code
ProcResult(started, success, stdout, stderr, exitCode) ==
    [started |-> started, success |-> success, stdout |-> stdout,
     stderr |-> stderr, exitCode |-> exitCode]
StderrText == <<"f", "a", "t", "a", "l">>
ProcNotStarted == ProcResult(FALSE, FALSE, <<>>, <<>>, "none")
ProcFailed == ProcResult(TRUE, FALSE, <<>>, StderrText, "1")
ProcOk(stdout) == ProcResult(TRUE, TRUE, stdout, <<>>, "0")
\* no command has been run yet
NoProc == ProcResult(FALSE, FALSE, <<>>, <<>>, "notRun")

GitResults == {ProcNotStarted, ProcFailed, ProcOk(<<>>)}
ExtractResults == {ProcFailed, ProcOk(DocsText), ProcOk(TextBlank), ProcOk(TextEmpty)}

NoError == [kind |-> "none", program |-> <<>>, exitCode |-> "none", stderr |-> <<>>]
\* an Error the script or the runtime throws: what its message holds
ErrorValue(kind, program, exitCode, stderr) ==
    [kind |-> kind, program |-> program, exitCode |-> exitCode, stderr |-> stderr]

GIT == <<"g", "i", "t">>
FILES_TO_PROMPT == <<"f", "i", "l", "e", "s", "-", "t", "o", "-", "p", "r", "o", "m", "p", "t">>

\* runCommand(command, args, cwd, errorMessage): the spawn error passes
\* through; a non-zero exit throws Error(`${errorMsg} (Exit Code: ${exitCode})`)
\* (stderr is printed, not attached); otherwise stdout is returned
runCommand(command, proc, errorMessage) ==
    IF ~proc.started
    THEN [threw |-> TRUE, error |-> ErrorValue("SpawnFailed", command, "none", <<>>), value |-> <<>>]
    ELSE IF ~proc.success
    THEN [threw |-> TRUE, error |-> ErrorValue(errorMessage, <<>>, proc.exitCode, <<>>), value |-> <<>>]
    ELSE [threw |-> FALSE, error |-> NoError, value |-> proc.stdout]

(***************************************************************************)
(* The generation client.                                                  *)
(***************************************************************************)
\* the answer of model.generateContent: the promise rejects, or it resolves
\* to a response whose text() accessor throws or returns text
Response(rejects, textThrows, text, candidates, parts, finishReason, blockReason) ==
    [rejects |-> rejects, textThrows |-> textThrows, text |-> text,
     candidates |-> candidates, parts |-> parts, finishReason |-> finishReason,
     blockReason |-> blockReason]

\* no request has been answered yet
NoResponse == Response(FALSE, FALSE, <<>>, 0, <<>>, "unset", "unset")

HeadingPart == EXPECTED_HEADING
BodyPart == <<"\n", "A">>

Responses ==
    {Response(TRUE, FALSE, <<>>, 0, <<>>, "none", "none"),
     Response(FALSE, FALSE, TextGood, 1, <<TextGood>>, "STOP", "none"),
     Response(FALSE, FALSE, TextPlain, 1, <<TextPlain>>, "STOP", "none"),
     Response(FALSE, FALSE, TextEmpty, 1, <<TextGood>>, "STOP", "none"),
     Response(FALSE, FALSE, TextBlank, 1, <<TextBlank>>, "STOP", "none"),
     Response(FALSE, FALSE, TextEmpty, 0, <<>>, "none", "none"),
     Response(FALSE, TRUE, <<>>, 1, <<HeadingPart, BodyPart>>, "STOP", "none"),
     Response(FALSE, TRUE, <<>>, 0, <<>>, "none", "SAFETY"),
     Response(FALSE, TRUE, <<>>, 1, <<>>, "MAX_TOKENS", "none"),
     Response(FALSE, TRUE, <<>>, 1, <<>>, "SAFETY", "OTHER")}

RECURSIVE joinParts(_)
\* parts.map(part => part.text).join('')
joinParts(parts) == IF parts = <<>> THEN <<>> ELSE Head(parts) \o joinParts(Tail(parts))

\* variant of CombinedCheatsheetText: the parts are also used when text()
\* returns the empty string
CombinedCheatsheetTextOrParts(answer) ==
    IF ~answer.textThrows /\ answer.text # <<>> THEN answer.text
    ELSE IF answer.candidates > 0 /\ Len(answer.parts) > 0 THEN joinParts(answer.parts)
    ELSE <<>>

\* lines 116-125: the text of a response
CombinedCheatsheetText(response) ==
    IF ~response.textThrows THEN response.text
    ELSE IF response.candidates > 0 /\ Len(response.parts) > 0 THEN joinParts(response.parts)
    ELSE <<>>

\* variant of EmptyTextReason: an abnormal finish reason of the first
\* candidate is preferred to the block reason of the prompt
EmptyTextReasonFinishFirst(answer) ==
    IF answer.candidates > 0 /\ answer.finishReason \notin {"none", "STOP"}
    THEN [class |-> "stopped", detail |-> answer.finishReason]
    ELSE IF answer.blockReason # "none" THEN [class |-> "blocked", detail |-> answer.blockReason]
    ELSE [class |-> "unknown", detail |-> "none"]

\* lines 128-136: the reason logged for an empty text ("none" if none is known)
EmptyTextReason(response) ==
    IF response.blockReason # "none" THEN [class |-> "blocked", detail |-> response.blockReason]
    ELSE IF response.candidates > 0 /\ response.finishReason \notin {"none", "STOP"}
    THEN [class |-> "stopped", detail |-> response.finishReason]
    ELSE [class |-> "unknown", detail |-> "none"]

NoReason == [class |-> "none", detail |-> "none"]

\* variant of generateCheatsheetWithGemini: a text without the expected
\* heading is refused
generateCheatsheetWithGeminiStrict(answer) ==
    IF answer.rejects
    THEN [threw |-> TRUE, error |-> ErrorValue("GeminiFailed:transport", <<>>, "none", <<>>),
          logged |-> [class |-> "transport", detail |-> "none"], warned |-> FALSE, value |-> <<>>]
    ELSE LET text == CombinedCheatsheetText(answer)
         IN  IF text = <<>> \/ trim(text) = <<>> \/ ~startsWith(trim(text), EXPECTED_HEADING)
             THEN [threw |-> TRUE, error |-> ErrorValue("GeminiFailed:noContent", <<>>, "none", <<>>),
                   logged |-> EmptyTextReason(answer), warned |-> FALSE, value |-> <<>>]
             ELSE [threw |-> FALSE, error |-> NoError, logged |-> NoReason,
                   warned |-> FALSE, value |-> text]

\* variant of generateCheatsheetWithGemini: an empty text is a failure only
\* when a block reason or an abnormal finish reason explains it
generateCheatsheetWithGeminiLenient(answer) ==
    IF answer.rejects
    THEN [threw |-> TRUE, error |-> ErrorValue("GeminiFailed:transport", <<>>, "none", <<>>),
          logged |-> [class |-> "transport", detail |-> "none"], warned |-> FALSE, value |-> <<>>]
    ELSE LET text == CombinedCheatsheetText(answer)
         IN  IF (text = <<>> \/ trim(text) = <<>>) /\ EmptyTextReason(answer).class # "unknown"
             THEN [threw |-> TRUE, error |-> ErrorValue("GeminiFailed:noContent", <<>>, "none", <<>>),
                   logged |-> EmptyTextReason(answer), warned |-> FALSE, value |-> <<>>]
             ELSE [threw |-> FALSE, error |-> NoError, logged |-> NoReason,
                   warned |-> ~startsWith(trim(text), EXPECTED_HEADING), value |-> text]

\* generateCheatsheetWithGemini: every failure leaves as
\* Error(`Gemini API failed for ${toolName}: ${error.message}`)
generateCheatsheetWithGemini(response) ==
    IF response.rejects
    THEN [threw |-> TRUE, error |-> ErrorValue("GeminiFailed:transport", <<>>, "none", <<>>),
          logged |-> [class |-> "transport", detail |-> "none"], warned |-> FALSE, value |-> <<>>]
    ELSE LET text == CombinedCheatsheetText(response)
         IN  IF text = <<>> \/ trim(text) = <<>>
             THEN [threw |-> TRUE, error |-> ErrorValue("GeminiFailed:noContent", <<>>, "none", <<>>),
                   logged |-> EmptyTextReason(response), warned |-> FALSE, value |-> <<>>]
             ELSE [threw |-> FALSE, error |-> NoError, logged |-> NoReason,
                   warned |-> ~startsWith(trim(text), EXPECTED_HEADING), value |-> text]

(***************************************************************************)
(* saveCheatsheet.                                                         *)
(***************************************************************************)
\* the files of the output directory after fs.writeFileSync(path, content)
WriteFile(files, fileName, content) ==
    {f \in files : f.name # fileName} \cup {[name |-> fileName, content |-> content]}

\* variant of saveCheatsheet: the content is trimmed before it is written
saveCheatsheetTrimmed(content, projectName, dirExists, files, mkdirFails, writeFails) ==
    IF ~dirExists /\ mkdirFails
    THEN [threw |-> TRUE, dirExists |-> dirExists, files |-> files]
    ELSE IF writeFails
    THEN [threw |-> TRUE, dirExists |-> TRUE, files |-> files]
    ELSE [threw |-> FALSE, dirExists |-> TRUE,
          files |-> WriteFile(files, CheatsheetFilename(projectName), trim(content))]

\* saveCheatsheet(content, projectName) on an output directory: mkdirSync
\* (recursive) then writeFileSync; either may fail, and then it throws
saveCheatsheet(content, projectName, dirExists, files, mkdirFails, writeFails) ==
    IF ~dirExists /\ mkdirFails
    THEN [threw |-> TRUE, dirExists |-> dirExists, files |-> files]
    ELSE IF writeFails
    THEN [threw |-> TRUE, dirExists |-> TRUE, files |-> files]
    ELSE [threw |-> FALSE, dirExists |-> TRUE,
          files |-> WriteFile(files, CheatsheetFilename(projectName), content)]

(***************************************************************************)
(* The source loader's decisions.                                          *)
(***************************************************************************)
\* variant of HasRequiredKeys: the test without path
HasRequiredKeysWithoutPath(data) == Truthy(data.repo) /\ Truthy(data.name)

\* line 289: sourceData.repo && sourceData.name && sourceData.path
HasRequiredKeys(data) == Truthy(data.repo) /\ Truthy(data.name) /\ Truthy(data.path)

\* lines 284-308: what one loop iteration does with the file it finds
LoadOutcome(content) ==
    IF content.kind = "absent" THEN "notFound"
    ELSE IF content.kind \in {"malformed", "null"} THEN "parseError"
    ELSE IF HasRequiredKeys(content) THEN "added"
    ELSE "missingKeys"

SourceConfig(name, repo, path, sourceOrigin) ==
    [name |-> name, repo |-> repo, path |-> path, sourceOrigin |-> sourceOrigin]

\* variant of EnvComplete: DOCS_DIR is not tested
EnvCompleteWithoutDocs(e) == e.REPO_URL # <<>> /\ e.PROJECT_NAME # <<>>

\* line 323: repoUrlEnv && projectNameEnv && docsDirEnv
EnvComplete(e) == e.REPO_URL # <<>> /\ e.PROJECT_NAME # <<>> /\ e.DOCS_DIR # <<>>

\* fs.rmSync(path, {recursive: true, force: true}): an absent path is no error
rmSync(dirs, path, rmFails) ==
    IF path \in dirs /\ rmFails
    THEN [threw |-> TRUE, dirs |-> dirs]
    ELSE [threw |-> FALSE, dirs |-> dirs \ {path}]

(***************************************************************************)
(* The state of the program and of the part of the file system it uses.    *)
(***************************************************************************)
VARIABLES
    pc,               \* position of the script
    exitStatus,       \* "running", "0" or "1"
    geminiApiKey,     \* process.env.GEMINI_API_KEY (<<>> when unset)
    env,              \* the three fallback environment variables
    sourceFileArgs,   \* argv._
    fileIndex,        \* position of the loader's for loop in sourceFileArgs
    sourceFilePath,   \* the resolved path of the argument the loader handled last
    sourceData,       \* what the loader found for the argument it handled last
    queued,           \* for each argument handled: was a source queued for it
    sourcesToProcess, \* the queue of run()
    hasErrors,
    sourceIndex,      \* position of the batch loop in sourcesToProcess
    successCount,
    failureCount,
    tempRepoPath,     \* workspace of the current processSource call
    filesToPromptOutput,
    cheatsheetContent,
    pipeline,         \* the current call: "idle", "running", "Success", "Failure", "Rejected"
    caught,           \* the error the current call caught (NoError if none)
    spawnResult,      \* what spawnSync gave for the command the current call ran last
    response,         \* the answer the current call got from the generation API
    trace,            \* the steps the current call has executed, in order
    console,          \* the diagnostics the current call has printed
    outcomes,         \* the result of every finished processSource call, in order
    saved,            \* for every finished call, in order: the text it saved (NoText if none)
    invoked,          \* the queue positions processSource was called with, in order
    tempDirs,         \* the workspace directories that exist on disk
    outputDirExists,  \* does CONTAINER_OUTPUT_DIR exist
    outputFiles,      \* the files in CONTAINER_OUTPUT_DIR: records [name, content]
    outputBefore,     \* outputDirExists and outputFiles when the current call started
    inFlight,         \* generation requests sent and not yet answered
    closing           \* the closing message of run(): "none", "allOk", "someFailed"

vars == <<pc, exitStatus, geminiApiKey, env, sourceFileArgs, fileIndex, sourceFilePath,
          sourceData, queued, sourcesToProcess, hasErrors, sourceIndex, successCount,
          failureCount, tempRepoPath, filesToPromptOutput, cheatsheetContent,
          pipeline, caught, spawnResult, response, trace, console, outcomes, saved, invoked,
          tempDirs, outputDirExists, outputFiles, outputBefore, inFlight, closing>>

inputVars == <<geminiApiKey, env, sourceFileArgs>>
loaderVars == <<fileIndex, sourceFilePath, sourceData, queued, sourcesToProcess, hasErrors>>
tallyVars == <<sourceIndex, successCount, failureCount, outcomes, saved, closing>>
textVars == <<filesToPromptOutput, cheatsheetContent>>
outputVars == <<outputDirExists, outputFiles>>
ioVars == <<spawnResult, response>>

NoPath == <<>>
NoText == <<>>

\* a leftover workspace of an earlier, aborted run may be on disk at start
LeftoverDirs == {TempRepoPath(NameMyTool)}

\* the state after the module's declarations, for a set of command lines
InitFor(commandLines) ==
    /\ pc = "start"
    /\ exitStatus = "running"
    /\ geminiApiKey \in {<<>>, ApiKey}
    /\ sourceFileArgs \in commandLines
    /\ env \in (IF sourceFileArgs = <<>> THEN Environments ELSE {EnvAllSet})
    /\ fileIndex = 1
    /\ sourceFilePath = NoPath
    /\ sourceData = FileAbsent
    /\ queued = <<>>
    /\ sourcesToProcess = <<>>
    /\ hasErrors = FALSE
    /\ sourceIndex = 1
    /\ successCount = 0
    /\ failureCount = 0
    /\ tempRepoPath = NoPath
    /\ filesToPromptOutput = NoText
    /\ cheatsheetContent = NoText
    /\ pipeline = "idle"
    /\ caught = NoError
    /\ spawnResult = NoProc
    /\ response = NoResponse
    /\ trace = <<>>
    /\ console = {}
    /\ outcomes = <<>>
    /\ saved = <<>>
    /\ invoked = <<>>
    /\ tempDirs \in SUBSET LeftoverDirs
    /\ outputDirExists = FALSE
    /\ outputFiles = {}
    /\ outputBefore = [dirExists |-> outputDirExists, files |-> {}]
    /\ inFlight = 0
    /\ closing = "none"

Init == InitFor(ArgLists(MaxArgs))

(***************************************************************************)
(* Module level and run(): start-up and the source loader.                 *)
(***************************************************************************)
callVars == <<tempRepoPath, filesToPromptOutput, cheatsheetContent, pipeline, caught,
              ioVars, trace, invoked, tempDirs, outputDirExists, outputFiles,
              outputBefore, inFlight>>
pipelineVars == <<callVars, console>>

\* variant of Start: the script goes on without a credential
StartWithoutKeyCheck ==
    /\ pc = "start"
    /\ pc' = IF Len(sourceFileArgs) > 0 THEN "loadFiles" ELSE "loadEnv"
    /\ UNCHANGED <<exitStatus, inputVars, loaderVars, tallyVars, pipelineVars>>

\* lines 20-39 and 271-275: the credential check, then the choice of mode
Start ==
    /\ pc = "start"
    /\ IF geminiApiKey = <<>>
       THEN pc' = "exited" /\ exitStatus' = "1"
       ELSE /\ pc' = IF Len(sourceFileArgs) > 0 THEN "loadFiles" ELSE "loadEnv"
            /\ exitStatus' = exitStatus
    /\ UNCHANGED <<inputVars, loaderVars, tallyVars, pipelineVars>>

\* variant of LoadFile: a skipped file is counted as a failure
LoadFileCountsSkipped ==
    /\ pc = "loadFiles"
    /\ fileIndex <= Len(sourceFileArgs)
    /\ \E content \in FileContents :
         LET added == LoadOutcome(content) = "added"
         IN  /\ sourceFilePath' = SourceFilePath(sourceFileArgs[fileIndex])
             /\ sourceData' = content
             /\ queued' = Append(queued, added)
             /\ sourcesToProcess' =
                  IF added
                  THEN Append(sourcesToProcess,
                              SourceConfig(content.name, content.repo, content.path,
                                           pathBasename(sourceFilePath')))
                  ELSE sourcesToProcess
             /\ hasErrors' = (hasErrors \/ ~added)
             /\ failureCount' = IF added THEN failureCount ELSE failureCount + 1
    /\ fileIndex' = fileIndex + 1
    /\ UNCHANGED <<pc, exitStatus, inputVars, sourceIndex, successCount, outcomes, saved,
                   closing, pipelineVars>>

\* lines 278-309: one iteration of the loop over the file arguments
LoadFile ==
    /\ pc = "loadFiles"
    /\ fileIndex <= Len(sourceFileArgs)
    /\ \E content \in FileContents :
         LET added == LoadOutcome(content) = "added"
         IN  /\ sourceFilePath' = SourceFilePath(sourceFileArgs[fileIndex])
             /\ sourceData' = content
             /\ queued' = Append(queued, added)
             /\ sourcesToProcess' =
                  IF added
                  THEN Append(sourcesToProcess,
                              SourceConfig(content.name, content.repo, content.path,
                                           pathBasename(sourceFilePath')))
                  ELSE sourcesToProcess
             /\ hasErrors' = (hasErrors \/ ~added)
    /\ fileIndex' = fileIndex + 1
    /\ UNCHANGED <<pc, exitStatus, inputVars, tallyVars, pipelineVars>>

\* variant of LoadFilesDone: the queue's length is not tested
LoadFilesDoneWithoutCheck ==
    /\ pc = "loadFiles"
    /\ fileIndex > Len(sourceFileArgs)
    /\ pc' = "batch"
    /\ sourceData' = FileAbsent
    /\ UNCHANGED <<exitStatus, inputVars, fileIndex, sourceFilePath, queued,
                   sourcesToProcess, hasErrors, tallyVars, pipelineVars>>

\* variant of LoadFilesDone: with an empty queue the loader falls back to
\* the environment variables
LoadFilesDoneFallsBack ==
    /\ pc = "loadFiles"
    /\ fileIndex > Len(sourceFileArgs)
    /\ pc' = IF Len(sourcesToProcess) = 0 THEN "loadEnv" ELSE "batch"
    /\ sourceData' = FileAbsent
    /\ UNCHANGED <<exitStatus, inputVars, fileIndex, sourceFilePath, queued, sourcesToProcess,
                   hasErrors, tallyVars, pipelineVars>>

\* lines 311-314: after the loop, an empty queue ends the process
LoadFilesDone ==
    /\ pc = "loadFiles"
    /\ fileIndex > Len(sourceFileArgs)
    /\ IF Len(sourcesToProcess) = 0
       THEN pc' = "exited" /\ exitStatus' = "1"
       ELSE pc' = "batch" /\ exitStatus' = exitStatus
    /\ sourceData' = FileAbsent
    /\ UNCHANGED <<inputVars, fileIndex, sourceFilePath, queued, sourcesToProcess,
                   hasErrors, tallyVars, pipelineVars>>

\* lines 316-338: no arguments, one source from the environment or exit
LoadEnv ==
    /\ pc = "loadEnv"
    /\ IF EnvComplete(env)
       THEN /\ sourcesToProcess' =
                 Append(sourcesToProcess,
                        SourceConfig(JString(env.PROJECT_NAME), JString(env.REPO_URL),
                                     JString(env.DOCS_DIR), ENV_ORIGIN))
            /\ pc' = "batch"
            /\ exitStatus' = exitStatus
            /\ console' = console
       ELSE /\ sourcesToProcess' = sourcesToProcess
            /\ pc' = "exited"
            /\ exitStatus' = "1"
            /\ console' = console \cup {"usage"}
    /\ UNCHANGED <<inputVars, fileIndex, sourceFilePath, sourceData, queued, hasErrors,
                   tallyVars, callVars>>

(***************************************************************************)
(* processSource(), one action per step.                                   *)
(***************************************************************************)
notCall == <<exitStatus, inputVars, loaderVars, tallyVars>>

\* an executed step and how it ended: "ok", "failed" (it threw), or
\* "pending" (the awaited generation request has not been answered yet)
Step(name, result) == [step |-> name, result |-> result]
Ended(name, threw) == Step(name, IF threw THEN "failed" ELSE "ok")

\* variant of Catch: the error ends the process, as runCommand did before
\* it threw ("Throw an error instead of exiting, so the loop can continue")
CatchExits(error) ==
    /\ pipeline' = "Failure"
    /\ caught' = error
    /\ pc' = "exited"

\* the catch block of line 254: the error is logged, the finally block is next
Catch(error) ==
    /\ pipeline' = "Failure"
    /\ caught' = error
    /\ pc' = "cleanup"

\* variant of ProcessSourceBegin: the loop does not await the call, so the
\* next call starts while the generation request of the last is in flight
ProcessSourceBeginWithoutAwait ==
    /\ pc \in {"batch", "awaiting"}
    /\ sourceIndex <= Len(sourcesToProcess)
    /\ LET sourceConfig == sourcesToProcess[sourceIndex]
       IN  IF sourceConfig.name.t = "string"
           THEN /\ tempRepoPath' = TempRepoPath(sourceConfig.name.v)
                /\ pipeline' = "running"
                /\ pc' = "prepare"
           ELSE /\ tempRepoPath' = NoPath
                /\ pipeline' = "Rejected"
                /\ pc' = "returned"
    /\ invoked' = Append(invoked, sourceIndex)
    /\ caught' = NoError
    /\ spawnResult' = NoProc
    /\ response' = NoResponse
    /\ trace' = <<>>
    /\ console' = {}
    /\ filesToPromptOutput' = NoText
    /\ cheatsheetContent' = NoText
    /\ outputBefore' = [dirExists |-> outputDirExists, files |-> outputFiles]
    /\ UNCHANGED <<notCall, tempDirs, outputVars, inFlight>>

\* lines 345-347 and 194-199: the loop calls processSource, which computes
\* the workspace path before its try block; a name that is no string has
\* no toLowerCase, and the TypeError leaves processSource
ProcessSourceBegin ==
    /\ pc = "batch"
    /\ sourceIndex <= Len(sourcesToProcess)
    /\ LET sourceConfig == sourcesToProcess[sourceIndex]
       IN  IF sourceConfig.name.t = "string"
           THEN /\ tempRepoPath' = TempRepoPath(sourceConfig.name.v)
                /\ pipeline' = "running"
                /\ pc' = "prepare"
           ELSE /\ tempRepoPath' = NoPath
                /\ pipeline' = "Rejected"
                /\ pc' = "returned"
    /\ invoked' = Append(invoked, sourceIndex)
    /\ caught' = NoError
    /\ spawnResult' = NoProc
    /\ response' = NoResponse
    /\ trace' = <<>>
    /\ console' = {}
    /\ filesToPromptOutput' = NoText
    /\ cheatsheetContent' = NoText
    /\ outputBefore' = [dirExists |-> outputDirExists, files |-> outputFiles]
    /\ UNCHANGED <<notCall, tempDirs, outputVars, inFlight>>

\* variant of PrepareWorkspace: the error of the first removal is not caught
\* by the inner try and ends the pipeline
PrepareWorkspaceStrict ==
    /\ pc = "prepare"
    /\ \E rmFails \in BOOLEAN, mkdirFails \in BOOLEAN :
         LET removed == rmSync(tempDirs, tempRepoPath, rmFails)
         IN  /\ console' = IF removed.threw THEN console \cup {"cleanWarning"} ELSE console
             /\ IF removed.threw \/ (mkdirFails /\ tempRepoPath \notin removed.dirs)
                THEN /\ tempDirs' = removed.dirs
                     /\ trace' = Append(trace, Ended("prepare", TRUE))
                     /\ Catch(ErrorValue("mkdir failed", <<>>, "none", <<>>))
                ELSE /\ tempDirs' = removed.dirs \cup {tempRepoPath}
                     /\ trace' = Append(trace, Ended("prepare", FALSE))
                     /\ pc' = "clone"
                     /\ UNCHANGED <<pipeline, caught>>
    /\ UNCHANGED <<notCall, ioVars, tempRepoPath, textVars, invoked, outputVars, outputBefore, inFlight>>

\* lines 203-211: remove a leftover workspace (a failure is a warning), then
\* create the directory (a failure is thrown)
PrepareWorkspace ==
    /\ pc = "prepare"
    /\ \E rmFails \in BOOLEAN, mkdirFails \in BOOLEAN :
         LET removed == rmSync(tempDirs, tempRepoPath, rmFails)
         IN  /\ console' = IF removed.threw THEN console \cup {"cleanWarning"} ELSE console
             /\ IF mkdirFails /\ tempRepoPath \notin removed.dirs
                THEN /\ tempDirs' = removed.dirs
                     /\ trace' = Append(trace, Ended("prepare", TRUE))
                     /\ Catch(ErrorValue("mkdir failed", <<>>, "none", <<>>))
                ELSE /\ tempDirs' = removed.dirs \cup {tempRepoPath}
                     /\ trace' = Append(trace, Ended("prepare", FALSE))
                     /\ pc' = "clone"
                     /\ UNCHANGED <<pipeline, caught>>
    /\ UNCHANGED <<notCall, ioVars, tempRepoPath, textVars, invoked, outputVars, outputBefore, inFlight>>

\* variant of Clone: a failed clone is tried once more
CloneWithRetry ==
    /\ pc = "clone"
    /\ \E proc \in GitResults :
         LET r == runCommand(GIT, proc, "Failed to clone repository")
         IN  /\ spawnResult' = proc
             /\ trace' = Append(trace, Ended("clone", r.threw))
             /\ IF r.threw /\ Step("clone", "failed") \in {trace[i] : i \in 1..Len(trace)}
                THEN Catch(r.error)
                ELSE IF r.threw
                THEN pc' = "clone" /\ UNCHANGED <<pipeline, caught>>
                ELSE pc' = "validate" /\ UNCHANGED <<pipeline, caught>>
    /\ UNCHANGED <<notCall, response, tempRepoPath, textVars, console, invoked, tempDirs, outputVars,
                   outputBefore, inFlight>>

\* lines 213-214: git clone --depth=1 through runCommand
Clone ==
    /\ pc = "clone"
    /\ \E proc \in GitResults :
         LET r == runCommand(GIT, proc, "Failed to clone repository")
         IN  /\ spawnResult' = proc
             /\ trace' = Append(trace, Ended("clone", r.threw))
             /\ IF r.threw
                THEN Catch(r.error)
                ELSE pc' = "validate" /\ UNCHANGED <<pipeline, caught>>
    /\ UNCHANGED <<notCall, response, tempRepoPath, textVars, console, invoked, tempDirs, outputVars,
                   outputBefore, inFlight>>

\* variant of ValidatePath: a missing path is logged and not thrown
ValidatePathWithoutThrow ==
    /\ pc = "validate"
    /\ \E exists \in BOOLEAN :
         /\ trace' = Append(trace, Ended("validate", ~exists))
         /\ console' = IF exists THEN console ELSE console \cup {"docsPathMissing"}
    /\ pc' = "extract"
    /\ UNCHANGED <<notCall, ioVars, tempRepoPath, textVars, pipeline, caught, invoked, tempDirs,
                   outputVars, outputBefore, inFlight>>

\* lines 217-221: the documentation path must exist in the clone
ValidatePath ==
    /\ pc = "validate"
    /\ \E exists \in BOOLEAN :
         /\ trace' = Append(trace, Ended("validate", ~exists))
         /\ IF ~exists
            THEN Catch(ErrorValue("Documentation directory not found", <<>>, "none", <<>>))
            ELSE pc' = "extract" /\ UNCHANGED <<pipeline, caught>>
    /\ UNCHANGED <<notCall, ioVars, tempRepoPath, textVars, console, invoked, tempDirs, outputVars,
                   outputBefore, inFlight>>

\* line 231: e.message.includes('ENOENT') || e.message.includes('files-to-prompt')
LooksLikeCommandNotFound(error) ==
    \/ error.kind = "SpawnFailed"
    \/ error.kind = "files-to-prompt execution failed"

\* lines 226-229: the --version probe, then files-to-prompt through runCommand
runFilesToPrompt(toolInstalled, proc) ==
    IF ~toolInstalled
    THEN [threw |-> TRUE, error |-> ErrorValue("SpawnFailed", FILES_TO_PROMPT, "none", <<>>),
          value |-> <<>>]
    ELSE runCommand(FILES_TO_PROMPT, proc, "files-to-prompt execution failed")

\* variant of IsBlank: the test without trim()
IsBlankWithoutTrim(text) == text = <<>>

\* line 240: !filesToPromptOutput || filesToPromptOutput.trim().length === 0
IsBlank(text) == text = <<>> \/ Len(trim(text)) = 0

\* lines 224-244: extraction, and the check that it produced text
Extract ==
    /\ pc = "extract"
    /\ \E toolInstalled \in BOOLEAN, proc \in ExtractResults :
         LET r == runFilesToPrompt(toolInstalled, proc)
         IN  /\ spawnResult' = IF toolInstalled THEN proc ELSE ProcNotStarted
             /\ IF r.threw
                THEN /\ console' = IF LooksLikeCommandNotFound(r.error)
                                   THEN console \cup {"commandNotFound",
                                                      IF toolInstalled THEN "toolRan" ELSE "toolMissing"}
                                   ELSE console
                     /\ trace' = Append(trace, Ended("extract", TRUE))
                     /\ Catch(r.error)
                     /\ UNCHANGED filesToPromptOutput
                ELSE /\ console' = console
                     /\ filesToPromptOutput' = r.value
                     /\ trace' = Append(trace, Ended("extract", IsBlank(r.value)))
                     /\ IF IsBlank(r.value)
                        THEN Catch(ErrorValue("files-to-prompt did not produce any output",
                                              <<>>, "none", <<>>))
                        ELSE pc' = "generate" /\ UNCHANGED <<pipeline, caught>>
    /\ UNCHANGED <<notCall, response, tempRepoPath, cheatsheetContent, invoked, tempDirs, outputVars,
                   outputBefore, inFlight>>

\* variant of GenerateCall: the output file is opened for writing before
\* the request is sent
GenerateCallOpensOutput ==
    /\ pc = "generate"
    /\ inFlight' = inFlight + 1
    /\ pc' = "awaiting"
    /\ trace' = Append(trace, Step("generate", "pending"))
    /\ outputDirExists' = TRUE
    /\ outputFiles' = WriteFile(outputFiles,
                                CheatsheetFilename(sourcesToProcess[sourceIndex].name.v), <<>>)
    /\ UNCHANGED <<notCall, ioVars, tempRepoPath, textVars, pipeline, caught, console, invoked,
                   tempDirs, outputBefore>>

\* lines 247 and 100: the request is sent and processSource awaits the answer
GenerateCall ==
    /\ pc = "generate"
    /\ inFlight' = inFlight + 1
    /\ pc' = "awaiting"
    /\ trace' = Append(trace, Step("generate", "pending"))
    /\ UNCHANGED <<notCall, ioVars, tempRepoPath, textVars, pipeline, caught, console, invoked,
                   tempDirs, outputVars, outputBefore>>

\* lines 112-171: the answer arrives and generateCheatsheetWithGemini ends
GenerateReturn ==
    /\ pc = "awaiting"
    /\ inFlight' = inFlight - 1
    /\ \E answer \in Responses :
         LET g == generateCheatsheetWithGemini(answer)
         IN  /\ response' = answer
             /\ console' = console
                  \cup (IF g.logged.class # "none" THEN {g.logged.class} ELSE {})
                  \cup (IF g.warned THEN {"headingWarning"} ELSE {})
             /\ trace' = [trace EXCEPT ![Len(trace)] = Ended("generate", g.threw)]
             /\ IF g.threw
                THEN Catch(g.error) /\ UNCHANGED cheatsheetContent
                ELSE /\ cheatsheetContent' = g.value
                     /\ pc' = "save"
                     /\ UNCHANGED <<pipeline, caught>>
    /\ UNCHANGED <<notCall, spawnResult, tempRepoPath, filesToPromptOutput, invoked, tempDirs,
                   outputVars, outputBefore>>

\* variant of Save: saveCheatsheet has no catch block of its own, and the
\* error of the file system leaves it as it is
SaveWithoutWrapping ==
    /\ pc = "save"
    /\ \E mkdirFails \in BOOLEAN, writeFails \in BOOLEAN :
         LET projectName == sourcesToProcess[sourceIndex].name.v
             r == saveCheatsheet(cheatsheetContent, projectName, outputDirExists,
                                 outputFiles, mkdirFails, writeFails)
         IN  /\ outputDirExists' = r.dirExists
             /\ outputFiles' = r.files
             /\ trace' = Append(trace, Ended("persist", r.threw))
             /\ IF r.threw
                THEN Catch(ErrorValue("mkdir failed", <<>>, "none", <<>>))
                ELSE pipeline' = "Success" /\ pc' = "cleanup" /\ UNCHANGED caught
    /\ UNCHANGED <<notCall, ioVars, tempRepoPath, textVars, console, invoked, tempDirs, outputBefore,
                   inFlight>>

\* lines 250-252: saveCheatsheet, and with it the end of the try block
Save ==
    /\ pc = "save"
    /\ \E mkdirFails \in BOOLEAN, writeFails \in BOOLEAN :
         LET projectName == sourcesToProcess[sourceIndex].name.v
             r == saveCheatsheet(cheatsheetContent, projectName, outputDirExists,
                                 outputFiles, mkdirFails, writeFails)
         IN  /\ outputDirExists' = r.dirExists
             /\ outputFiles' = r.files
             /\ trace' = Append(trace, Ended("persist", r.threw))
             /\ IF r.threw
                THEN Catch(ErrorValue("Failed to save cheatsheet", <<>>, "none", <<>>))
                ELSE pipeline' = "Success" /\ pc' = "cleanup" /\ UNCHANGED caught
    /\ UNCHANGED <<notCall, ioVars, tempRepoPath, textVars, console, invoked, tempDirs, outputBefore,
                   inFlight>>

\* variant of Cleanup: the removal is the last statement of the try block
\* and not a finally block, so that a failed call skips it
CleanupInTryBlock ==
    /\ pc = "cleanup"
    /\ \E rmFails \in BOOLEAN :
         LET removed == IF pipeline = "Success"
                        THEN rmSync(tempDirs, tempRepoPath, rmFails)
                        ELSE [threw |-> FALSE, dirs |-> tempDirs]
         IN  /\ tempDirs' = removed.dirs
             /\ console' = IF removed.threw THEN console \cup {"cleanupWarning"} ELSE console
             /\ trace' = Append(trace, Ended("cleanup", removed.threw))
    /\ pc' = "returned"
    /\ UNCHANGED <<notCall, ioVars, tempRepoPath, textVars, pipeline, caught, invoked, outputVars,
                   outputBefore, inFlight>>

\* variant of Cleanup: the finally block does not catch the error of the
\* removal, which then rejects the promise of processSource
CleanupThrows ==
    /\ pc = "cleanup"
    /\ \E rmFails \in BOOLEAN :
         LET removed == rmSync(tempDirs, tempRepoPath, rmFails)
         IN  /\ tempDirs' = removed.dirs
             /\ trace' = Append(trace, Ended("cleanup", removed.threw))
             /\ pipeline' = IF removed.threw THEN "Rejected" ELSE pipeline
    /\ pc' = "returned"
    /\ UNCHANGED <<notCall, ioVars, tempRepoPath, textVars, console, caught, invoked, outputVars,
                   outputBefore, inFlight>>

\* lines 258-268: the finally block removes the workspace; a failure to
\* remove it is a warning, and processSource returns
Cleanup ==
    /\ pc = "cleanup"
    /\ \E rmFails \in BOOLEAN :
         LET removed == rmSync(tempDirs, tempRepoPath, rmFails)
         IN  /\ tempDirs' = removed.dirs
             /\ console' = IF removed.threw THEN console \cup {"cleanupWarning"} ELSE console
             /\ trace' = Append(trace, Ended("cleanup", removed.threw))
    /\ pc' = "returned"
    /\ UNCHANGED <<notCall, ioVars, tempRepoPath, textVars, pipeline, caught, invoked, outputVars,
                   outputBefore, inFlight>>

(***************************************************************************)
(* run(): the batch loop and the summary.                                  *)
(***************************************************************************)
\* did the promise of processSource reject
Rejected(result) == result = "Rejected"

\* variant of Counted: the catch block of the loop counts nothing
CountedWithoutCatch(result, successes, failures) ==
    IF Rejected(result)
    THEN [successCount |-> successes, failureCount |-> failures]
    ELSE [successCount |-> successes + 1, failureCount |-> failures]

\* variant of Counted: the loop has no catch block of its own and counts
\* every call that has ended
CountedAlwaysSuccess(result, successes, failures) ==
    [successCount |-> successes + 1, failureCount |-> failures]

\* lines 346-353: successCount++ after the awaited call, failureCount++ in
\* the catch block of the loop
Counted(result, successes, failures) ==
    IF Rejected(result)
    THEN [successCount |-> successes, failureCount |-> failures + 1]
    ELSE [successCount |-> successes + 1, failureCount |-> failures]

\* lines 345-354: the awaited call has ended; count it and go to the next source
Tally ==
    /\ pc = "returned"
    /\ successCount' = Counted(pipeline, successCount, failureCount).successCount
    /\ failureCount' = Counted(pipeline, successCount, failureCount).failureCount
    /\ outcomes' = Append(outcomes, pipeline)
    /\ saved' = Append(saved, IF pipeline = "Success" THEN cheatsheetContent ELSE NoText)
    /\ sourceIndex' = sourceIndex + 1
    /\ pc' = "batch"
    /\ pipeline' = "idle"
    /\ caught' = NoError
    /\ spawnResult' = NoProc
    /\ response' = NoResponse
    /\ trace' = <<>>
    /\ console' = {}
    /\ tempRepoPath' = NoPath
    /\ filesToPromptOutput' = NoText
    /\ cheatsheetContent' = NoText
    /\ UNCHANGED <<exitStatus, inputVars, loaderVars, closing, invoked, tempDirs,
                   outputVars, outputBefore, inFlight>>

\* variant of Summary: the exit of line 367, which the script has commented out
SummaryExitsOnFailure ==
    /\ pc = "batch"
    /\ sourceIndex > Len(sourcesToProcess)
    /\ closing' = IF hasErrors \/ failureCount > 0 THEN "someFailed" ELSE "allOk"
    /\ pc' = "done"
    /\ exitStatus' = IF hasErrors \/ failureCount > 0 THEN "1" ELSE "0"
    /\ UNCHANGED <<inputVars, loaderVars, sourceIndex, successCount, failureCount, outcomes,
                   saved, pipelineVars>>

\* lines 356-370: the summary and the closing message; run() returns and the
\* process ends with status 0
Summary ==
    /\ pc = "batch"
    /\ sourceIndex > Len(sourcesToProcess)
    /\ closing' = IF hasErrors \/ failureCount > 0 THEN "someFailed" ELSE "allOk"
    /\ pc' = "done"
    /\ exitStatus' = "0"
    /\ UNCHANGED <<inputVars, loaderVars, sourceIndex, successCount, failureCount, outcomes,
                   saved, pipelineVars>>

Next ==
    \/ Start
    \/ LoadFile
    \/ LoadFilesDone
    \/ LoadEnv
    \/ ProcessSourceBegin
    \/ PrepareWorkspace
    \/ Clone
    \/ ValidatePath
    \/ Extract
    \/ GenerateCall
    \/ GenerateReturn
    \/ Save
    \/ Cleanup
    \/ Tally
    \/ Summary

Spec == Init /\ [][Next]_vars

\* the command lines explored for progress: the environment mode, one
\* file, and two files (so that a skipped file and a failed source, or two
\* failed sources, occur in one run)
LiveCommandLines == {<<>>, <<ArgAbs>>, <<ArgDot, ArgBare>>}

LiveInit == Init /\ sourceFileArgs \in LiveCommandLines

\* the command lines explored for batches in which two sources share a name
\* and a third one has another name: the environment mode and three files
DuplicateCommandLines == {<<>>, <<ArgAbs, ArgDot, ArgBare>>}

DuplicateInit == InitFor(DuplicateCommandLines)

\* the script is one sequential thread: every statement is executed once
\* the one before it has ended, every external command is run synchronously
\* and the one awaited promise is settled when the generation API answers
FairSpec == LiveInit /\ [][Next]_vars /\ WF_vars(Next)

DuplicateSpec == DuplicateInit /\ [][Next]_vars

(***************************************************************************)
(* Properties.                                                             *)
(***************************************************************************)
Range(q) == {q[i] : i \in 1..Len(q)}
NumberOf(x, q) == Cardinality({i \in 1..Len(q) : q[i] = x})
\* the steps of the current call without the final cleanup
StepsRun == SelectSeq(trace, LAMBDA e : e.step # "cleanup")
StepNames(q) == {q[i].step : i \in 1..Len(q)}
PipelineOrder == <<"prepare", "clone", "validate", "extract", "generate", "persist">>
Terminated == pc \in {"done", "exited"}
OutputNow == [dirExists |-> outputDirExists, files |-> outputFiles]

\* C1: run() calls processSource once per queued source, in queue order, and
\* at the summary the number attempted, the number of calls and
\* successCount + failureCount all equal the length of the queue.
C1_OneCallPerSource ==
    /\ invoked = [i \in 1..Len(invoked) |-> i]
    /\ Len(invoked) <= Len(sourcesToProcess)
    /\ successCount + failureCount = Len(outcomes)
    /\ pc = "done" =>
         /\ Len(invoked) = Len(sourcesToProcess)
         /\ successCount + failureCount = Len(sourcesToProcess)

C1_Witness ==
    /\ pc = "done"
    /\ Len(sourcesToProcess) = 2
    /\ invoked = <<1, 2>>
    /\ outcomes = <<"Rejected", "Failure">>

\* C2: the tally follows the pipeline outcome: succeeded counts exactly the
\* calls that ended in Success and failed exactly the calls that did not.
C2_TallyFollowsOutcome ==
    /\ successCount = NumberOf("Success", outcomes)
    /\ failureCount = Len(outcomes) - NumberOf("Success", outcomes)

\* C3: isolation: a failure of one source never ends the batch.  The
\* process exits early only before the first call; a failed call always
\* goes on to its cleanup and back to the loop; the loop then starts the
\* next source of the queue; and when the script has ended after a failed
\* call, every later source has been started.
C3_Isolation ==
    /\ pc = "exited" => invoked = <<>>
    /\ pipeline \in {"Failure", "Rejected"} =>
          \/ pc = "cleanup" /\ ENABLED Cleanup
          \/ pc = "returned" /\ ENABLED Tally
    /\ pc = "batch" =>
          /\ sourceIndex = Len(outcomes) + 1
          /\ sourceIndex <= Len(sourcesToProcess) => ENABLED ProcessSourceBegin
    /\ pc = "done" =>
         \A i \in 1..Len(outcomes) :
            outcomes[i] # "Success" =>
               \A j \in (i + 1)..Len(sourcesToProcess) : j \in Range(invoked)

C3_Witness ==
    /\ pc = "prepare"
    /\ sourceIndex = 2
    /\ outcomes = <<"Failure">>
    /\ invoked = <<1, 2>>

\* C4 as claimed: when a processSource call has ended, its workspace does
\* not exist on disk.
C4_WorkspaceGoneAsClaimed ==
    pc = "returned" => tempRepoPath \notin tempDirs

\* C4 as amended: when a processSource call has ended, its workspace does
\* not exist on disk unless the final removal itself failed (which is logged
\* as a warning); removing a workspace that is already absent is no error:
\* after a failed creation the final removal raises no warning.
C4_WorkspaceGoneUnlessRemovalFailed ==
    pc = "returned" =>
       /\ "cleanupWarning" \notin console => tempRepoPath \notin tempDirs
       /\ caught.kind = "mkdir failed" =>
             "cleanupWarning" \notin console /\ tempRepoPath \notin tempDirs
       /\ \A rmFails \in BOOLEAN :
             tempRepoPath \notin tempDirs => ~rmSync(tempDirs, tempRepoPath, rmFails).threw

C4_Witness ==
    /\ pc = "returned"
    /\ pipeline = "Failure"
    /\ caught.kind = "Failed to clone repository"
    /\ "cleanupWarning" \notin console
    /\ tempRepoPath \notin tempDirs

\* C5: processSource never raises past its own boundary: for every source
\* the loader can queue, its promise resolves.
C5_NeverRejects == pipeline # "Rejected"

\* C6: when the extraction step has run and its text is empty or
\* whitespace-only, no generation request is sent for that source and the
\* pipeline ends in Failure.
C6_NoGenerationOnBlankExtraction ==
    ("extract" \in StepNames(trace) /\ (filesToPromptOutput = <<>> \/ trim(filesToPromptOutput) = <<>>)) =>
       /\ "generate" \notin StepNames(trace)
       /\ inFlight = 0
       /\ pipeline = "Failure"

C6_Witness ==
    /\ pc = "returned"
    /\ filesToPromptOutput = TextBlank
    /\ pipeline = "Failure"

\* the step an error was thrown by
StepOfError(error) ==
    CASE error.kind = "mkdir failed" -> "prepare"
      [] error.kind = "SpawnFailed" /\ error.program = GIT -> "clone"
      [] error.kind = "Failed to clone repository" -> "clone"
      [] error.kind = "Documentation directory not found" -> "validate"
      [] error.kind = "SpawnFailed" /\ error.program = FILES_TO_PROMPT -> "extract"
      [] error.kind = "files-to-prompt execution failed" -> "extract"
      [] error.kind = "files-to-prompt did not produce any output" -> "extract"
      [] error.kind \in {"GeminiFailed:transport", "GeminiFailed:noContent"} -> "generate"
      [] error.kind = "Failed to save cheatsheet" -> "persist"
      [] OTHER -> "none"

\* C7: the steps of one call happen in the order prepare, clone, validate,
\* extract, generate, persist; every step but the last one executed has
\* succeeded, so that nothing follows a failed step except cleanup; a failed
\* call stops at the step that threw; clone runs in a created workspace,
\* generation on non-blank extracted text, persistence on generated text.
C7_StepsInOrder ==
    /\ [i \in 1..Len(StepsRun) |-> StepsRun[i].step] = SubSeq(PipelineOrder, 1, Len(StepsRun))
    /\ \A i \in 1..(Len(StepsRun) - 1) : StepsRun[i].result = "ok"
    /\ \A i \in 1..Len(trace) : trace[i].step = "cleanup" => i = Len(trace)
    /\ pipeline = "Failure" =>
          /\ StepsRun # <<>>
          /\ StepsRun[Len(StepsRun)] = Step(StepOfError(caught), "failed")
    /\ pipeline = "Success" =>
          /\ Len(StepsRun) = Len(PipelineOrder)
          /\ StepsRun[Len(StepsRun)].result = "ok"
    /\ pc = "clone" => tempRepoPath \in tempDirs
    /\ pc \in {"generate", "awaiting"} => trim(filesToPromptOutput) # <<>>
    /\ pc = "save" => trim(cheatsheetContent) # <<>>

C7_Witness ==
    /\ pc = "returned"
    /\ pipeline = "Failure"
    /\ trace = <<Step("prepare", "ok"), Step("clone", "ok"), Step("validate", "failed"),
                 Step("cleanup", "ok")>>

\* C8: a call that has not reached the persistence step, and so every call
\* that fails before it, leaves the output directory as it was when the
\* call started: no file is created, truncated or modified.
C8_NoOutputBeforePersist ==
    (pipeline \in {"running", "Failure", "Rejected"} /\ "persist" \notin StepNames(trace)) =>
       OutputNow = outputBefore

C8_Witness ==
    /\ pc = "returned"
    /\ pipeline = "Failure"
    /\ "generate" \in StepNames(trace)
    /\ "persist" \notin StepNames(trace)
    /\ outputFiles # {}

\* the last segment of a path string
BaseName(p) == Segments(p)[Len(Segments(p))]
\* a file that exists, parses as a record and has a non-empty name, repo and path
CompleteRecord(content) ==
    /\ content.kind = "object"
    /\ \A value \in {content.name, content.repo, content.path} :
          value.t # "undefined" /\ value.v # <<>>
\* the positions of the arguments for which a source was queued
QueuedPositions == SelectSeq([i \in 1..Len(queued) |-> i], LAMBDA i : queued[i])

\* C9: in configuration-file mode every argument is handled on its own: a
\* file that is absent, unparsable or incomplete adds no source and sets the
\* loader error, every other file adds exactly one source, built from the
\* file's fields with the file's base name as origin, at the end of the
\* queue, and the loop goes on to the next argument; so the queue holds one
\* source per valid file, in command-line order.
C9_FilesHandledIndependently ==
    /\ [](\/ Len(sourceFileArgs) = 0
          \/ /\ Len(QueuedPositions) = Len(sourcesToProcess)
             /\ \A k \in 1..Len(QueuedPositions) :
                   sourcesToProcess[k].sourceOrigin = BaseName(sourceFileArgs[QueuedPositions[k]])
             /\ hasErrors = (\E i \in 1..Len(queued) : ~queued[i]))
    /\ [][(pc = "loadFiles" /\ fileIndex <= Len(sourceFileArgs)) =>
            /\ pc' = "loadFiles"
            /\ fileIndex' = fileIndex + 1
            /\ IF CompleteRecord(sourceData')
               THEN /\ sourcesToProcess' =
                         Append(sourcesToProcess,
                                SourceConfig(sourceData'.name, sourceData'.repo, sourceData'.path,
                                             BaseName(sourceFileArgs[fileIndex])))
                    /\ hasErrors' = hasErrors
               ELSE /\ sourcesToProcess' = sourcesToProcess
                    /\ hasErrors' = TRUE]_vars

C9_Witness ==
    /\ pc = "batch"
    /\ sourceFileArgs = <<ArgDir, ArgAbs>>
    /\ queued = <<FALSE, TRUE>>
    /\ Len(sourcesToProcess) = 1
    /\ sourcesToProcess[1].sourceOrigin = <<"a", ".", "j", "s", "o", "n">>
    /\ hasErrors

\* every file argument has been handled and none gave a source
NoFileValid ==
    /\ Len(sourceFileArgs) > 0
    /\ Len(queued) = Len(sourceFileArgs)
    /\ \A i \in 1..Len(queued) : ~queued[i]

\* C10: when configuration files are given and none yields a source, the
\* run ends with exit status 1 before any pipeline starts: processSource is
\* never called, no workspace is created, no step runs and no generation
\* request is sent.
C10_NoValidSourceIsFatal ==
    /\ [](NoFileValid =>
            /\ pc \in {"loadFiles", "exited"}
            /\ pc = "exited" => exitStatus = "1"
            /\ invoked = <<>>
            /\ trace = <<>>
            /\ tempDirs \subseteq LeftoverDirs
            /\ inFlight = 0
            /\ outputFiles = {})
    /\ [][(NoFileValid /\ pc = "loadFiles") => (pc' = "exited" /\ exitStatus' = "1")]_vars

C10_Witness ==
    /\ NoFileValid
    /\ Len(sourceFileArgs) = 2
    /\ pc = "exited"
    /\ exitStatus = "1"

\* C11: when GEMINI_API_KEY is unset or empty, the first thing the script
\* does is exit with status 1: no configuration file has been resolved or
\* read, the environment fallback has not been consulted, no source is
\* queued and processSource is never called.
C11_NoCredentialIsFatal ==
    /\ [](geminiApiKey = <<>> =>
            /\ pc \in {"start", "exited"}
            /\ pc = "exited" => exitStatus = "1"
            /\ fileIndex = 1
            /\ sourceFilePath = NoPath
            /\ queued = <<>>
            /\ sourcesToProcess = <<>>
            /\ invoked = <<>>
            /\ trace = <<>>
            /\ inFlight = 0)
    /\ [][(geminiApiKey = <<>> /\ pc = "start") => (pc' = "exited" /\ exitStatus' = "1")]_vars

C11_Witness ==
    /\ geminiApiKey = <<>>
    /\ Len(sourceFileArgs) = 2
    /\ pc = "exited"
    /\ exitStatus = "1"
    /\ fileIndex = 1

\* the environment-variable mode has made its decision
EnvModeDecided ==
    /\ Len(sourceFileArgs) = 0
    /\ geminiApiKey # <<>>
    /\ pc \notin {"start", "loadEnv"}

\* C12: with no configuration-file argument (and the credential present):
\* if REPO_URL, PROJECT_NAME and DOCS_DIR are all non-empty, the queue is
\* exactly one source with these three values and the origin
\* "environment variables", and the run goes on to process it; if any of
\* the three is unset or empty, the usage message is printed, the process
\* exits with status 1, the queue is empty and no source is processed.
C12_EnvironmentMode ==
    EnvModeDecided =>
       IF \A v \in {env.REPO_URL, env.PROJECT_NAME, env.DOCS_DIR} : v # <<>>
       THEN /\ Len(sourcesToProcess) = 1
            /\ sourcesToProcess[1].name.v = env.PROJECT_NAME
            /\ sourcesToProcess[1].repo.v = env.REPO_URL
            /\ sourcesToProcess[1].path.v = env.DOCS_DIR
            /\ sourcesToProcess[1].sourceOrigin =
                  <<"e", "n", "v", "i", "r", "o", "n", "m", "e", "n", "t", " ",
                    "v", "a", "r", "i", "a", "b", "l", "e", "s">>
            /\ pc # "exited"
            /\ pc = "done" => invoked = <<1>>
       ELSE /\ pc = "exited"
            /\ exitStatus = "1"
            /\ "usage" \in console
            /\ sourcesToProcess = <<>>
            /\ invoked = <<>>
            /\ trace = <<>>

C12_Witness ==
    /\ EnvModeDecided
    /\ env = EnvAllSet
    /\ pc = "done"
    /\ Len(sourcesToProcess) = 1
    /\ sourcesToProcess[1].sourceOrigin = ENV_ORIGIN
    /\ outcomes = <<"Success">>

\* a path string with a directory component
HasDirectoryComponent(arg) == \E i \in 1..Len(arg) : arg[i] = "/"

\* C13: the path the loader looks at for an argument: an absolute path, and
\* a relative path with a directory component such as sources/bun.json, is
\* resolved as given against the working directory; only a bare file name
\* is resolved against the default sources directory.
C13_PathResolvedAsDocumented ==
    fileIndex > 1 =>
       LET arg == sourceFileArgs[fileIndex - 1]
       IN  sourceFilePath =
             IF IsAbsolute(arg) \/ HasDirectoryComponent(arg)
             THEN Normalize(<<>>, (IF IsAbsolute(arg) THEN <<>> ELSE Segments(CWD)) \o Segments(arg))
             ELSE Normalize(<<>>, Segments(CWD) \o Segments(SOURCES_DIR) \o Segments(arg))

\* the file name the claim gives for a name: of the lower-cased name, the
\* characters of [a-z0-9] are kept, the first character of every maximal
\* run of other characters becomes "_" and the rest of the run is dropped;
\* then "_cheatsheet.md" follows
ClaimedFilename(name) ==
    LET low == toLowerCase(name)
        InClass(i) == low[i] \in {LowerChars[k] : k \in 1..Len(LowerChars)} \cup DigitChars
        kept == SelectSeq([i \in 1..Len(low) |-> i],
                          LAMBDA i : InClass(i) \/ i = 1 \/ InClass(i - 1))
    IN  [k \in 1..Len(kept) |-> IF InClass(kept[k]) THEN low[kept[k]] ELSE "_"]
        \o <<"_", "c", "h", "e", "a", "t", "s", "h", "e", "e", "t", ".", "m", "d">>

\* the names of the sources processSource has been called with
NamesProcessed == {sourcesToProcess[invoked[i]].name : i \in 1..Len(invoked)}

\* C14: the output file name is a function of the name alone: a call that
\* has saved its cheatsheet has written it to the file whose name is the
\* lower-cased name with every maximal run of characters outside [a-z0-9]
\* replaced by one "_", followed by "_cheatsheet.md" ("My Tool!" gives
\* my_tool__cheatsheet.md); every file of the output directory has the name
\* so computed from a processed name; and the same name gives the same
\* file, so there are never more files than distinct processed names.
C14_FilenameFromName ==
    /\ pipeline = "Success" =>
          LET name == sourcesToProcess[sourceIndex].name.v
          IN  /\ [name |-> ClaimedFilename(name), content |-> cheatsheetContent] \in outputFiles
              /\ name = <<"M", "y", " ", "T", "o", "o", "l", "!">> =>
                    \E f \in outputFiles :
                       f.name = <<"m", "y", "_", "t", "o", "o", "l", "_", "_", "c", "h", "e",
                                  "a", "t", "s", "h", "e", "e", "t", ".", "m", "d">>
    /\ \A f \in outputFiles :
          \E n \in NamesProcessed : n.t = "string" /\ f.name = ClaimedFilename(n.v)
    /\ \A f, g \in outputFiles : f.name = g.name => f = g
    /\ Cardinality(outputFiles) <= Cardinality(NamesProcessed)

C14_Witness ==
    /\ pc = "returned"
    /\ pipeline = "Success"
    /\ sourceIndex = 2
    /\ sourcesToProcess[1].name.v = NameDemo
    /\ sourcesToProcess[2].name.v = NameMyTool
    /\ {f.name : f \in outputFiles} =
          {<<"d", "e", "m", "o", "_", "2">> \o CHEATSHEET_SUFFIX,
           <<"m", "y", "_", "t", "o", "o", "l", "_">> \o CHEATSHEET_SUFFIX}

\* the credential is present and the loader has queued at least one source
Resolved == geminiApiKey # <<>> /\ Len(sourcesToProcess) >= 1

\* the final summary has been printed after every source was attempted
SummaryReached ==
    /\ pc = "done"
    /\ closing # "none"
    /\ invoked = [i \in 1..Len(sourcesToProcess) |-> i]
    /\ Len(outcomes) = Len(sourcesToProcess)

\* C15: once at least one source is queued and the credential is present,
\* this stays so, the process never exits early, the run always comes to
\* its end, and its end is the final summary with every source of the queue
\* attempted and exit status 0, however many sources failed and however
\* many configuration files were skipped.
C15_BatchAlwaysCompletes ==
    /\ [][Resolved => Resolved']_vars
    /\ [](Resolved => pc # "exited")
    /\ [](pc = "done" => SummaryReached /\ exitStatus = "0")
    /\ <>Terminated

C15_Witness ==
    /\ SummaryReached
    /\ exitStatus = "0"
    /\ Len(sourcesToProcess) = 1
    /\ Len(sourceFileArgs) = 2
    /\ hasErrors
    /\ outcomes = <<"Failure">>

\* the kind of failure an answer of the generation API stands for
FailureKind(answer) ==
    IF answer.rejects THEN "transport"
    ELSE IF answer.blockReason # "none" THEN "blocked"
    ELSE IF answer.candidates > 0 /\ answer.finishReason \notin {"none", "STOP"} THEN "stopped"
    ELSE "noContent"

\* the current call has ended and its generation request was answered
GenerationAnswered == pc = "returned" /\ response # NoResponse

\* C16: when the generation API answers with no candidates and a
\* content-policy block reason, the call ends in Failure, the failure it
\* ends with is the blocked one (no answer of another kind gives the same
\* failure), the output directory is as it was before the call and the
\* workspace is gone.
C16_BlockedResponse ==
    (GenerationAnswered /\ ~response.rejects /\ response.candidates = 0
       /\ response.blockReason # "none") =>
       /\ pipeline = "Failure"
       /\ StepOfError(caught) = "generate"
       /\ \A other \in Responses :
             FailureKind(other) # "blocked" => generateCheatsheetWithGemini(other).error # caught
       /\ OutputNow = outputBefore
       /\ tempRepoPath \notin tempDirs

\* C17: the failure generateCheatsheetWithGemini ends with tells the four
\* kinds apart (no content, blocked, stopped abnormally, transport error):
\* the failure of a call is never the failure an answer of another kind
\* gives.
C17_FailureReasonsDistinct ==
    (GenerationAnswered /\ pipeline = "Failure" /\ StepOfError(caught) = "generate") =>
       \A other \in Responses :
          (generateCheatsheetWithGemini(other).threw /\ FailureKind(other) # FailureKind(response))
             => generateCheatsheetWithGemini(other).error # caught

\* the texts of the parts, first to last, as one text
RECURSIVE InOrder(_)
InOrder(parts) ==
    IF parts = <<>> THEN <<>>
    ELSE InOrder(SubSeq(parts, 1, Len(parts) - 1)) \o parts[Len(parts)]

\* the text of the first candidate's parts (empty without candidate or parts)
PartsText(answer) ==
    IF answer.candidates > 0 /\ answer.parts # <<>> THEN InOrder(answer.parts) ELSE <<>>

\* the generation request of the current call was answered with a response
ResponseHandled == pc \in {"save", "cleanup", "returned"} /\ response # NoResponse /\ ~response.rejects

\* what the call did with the text taken from the response: a text that is
\* not blank is returned unchanged, a blank one is the no-content failure
UsedAsText(text) ==
    IF trim(text) # <<>>
    THEN trace[5] = Step("generate", "ok") /\ cheatsheetContent = text
    ELSE trace[5] = Step("generate", "failed") /\ cheatsheetContent = NoText

\* C18 as claimed: the text is that of the first candidate's parts, in
\* order, whenever the primary text is unavailable or empty: when text()
\* throws and also when it returns the empty string.
C18_FallbackWhenUnavailableOrEmpty ==
    ResponseHandled =>
       UsedAsText(IF response.textThrows \/ response.text = <<>>
                  THEN PartsText(response)
                  ELSE response.text)

\* C18 as amended: the text is that of the first candidate's parts, in
\* order, only when text() throws; when text() returns the empty string the
\* parts are not looked at and the call fails for lack of content.
C18_FallbackOnlyWhenAccessorFails ==
    ResponseHandled =>
       /\ UsedAsText(IF response.textThrows THEN PartsText(response) ELSE response.text)
       /\ (~response.textThrows /\ response.text = <<>>) =>
             pipeline = "Failure" /\ StepOfError(caught) = "generate"

C18_Witness ==
    /\ ResponseHandled
    /\ pc = "save"
    /\ response.textThrows
    /\ response.parts = <<HeadingPart, BodyPart>>
    /\ cheatsheetContent = HeadingPart \o BodyPart

\* the text the current call took from the response it got
TextOfResponse == IF response.textThrows THEN PartsText(response) ELSE response.text

\* the first n characters of a text (all of it when it is shorter)
Prefix(text, n) == SubSeq(text, 1, IF Len(text) < n THEN Len(text) ELSE n)

\* that text is not blank and does not begin with the expected heading
\* (leading white space aside)
TextWithoutHeading ==
    /\ ResponseHandled
    /\ trim(TextOfResponse) # <<>>
    /\ Prefix(trim(TextOfResponse), 33) #
          <<"#", "#", " ", "I", "n", "t", "r", "o", "d", "u", "c", "t", "i", "o", "n", " ",
            "f", "o", "r", " ", "t", "h", "e", " ", "L", "L", "M", " ", "A", "g", "e", "n", "t">>

\* C19: the structural check is advisory: when the generated text is not
\* empty and does not begin with the expected heading, a warning is printed,
\* generateCheatsheetWithGemini returns the text unchanged, the call goes on
\* to persist exactly that text and ends in Success; the only way such a
\* call can still fail is that writing the file itself fails.
C19_HeadingCheckIsAdvisory ==
    TextWithoutHeading =>
       /\ "headingWarning" \in console
       /\ trace[5] = Step("generate", "ok")
       /\ cheatsheetContent = TextOfResponse
       /\ pc \in {"cleanup", "returned"} => Len(StepsRun) = 6 /\ StepsRun[6].step = "persist"
       /\ pipeline = "Failure" => StepOfError(caught) = "persist"
       /\ pc = "returned" /\ StepsRun[6].result = "ok" =>
             /\ pipeline = "Success"
             /\ \E f \in outputFiles :
                   /\ f.name = CheatsheetFilename(sourcesToProcess[sourceIndex].name.v)
                   /\ f.content = TextOfResponse

C19_Witness ==
    /\ TextWithoutHeading
    /\ pc = "returned"
    /\ pipeline = "Success"
    /\ response.text = TextPlain
    /\ "headingWarning" \in console
    /\ \E f \in outputFiles : f.content = TextPlain

\* the program the current call ran last through runCommand
ProgramRun == IF "extract" \in StepNames(trace) THEN FILES_TO_PROMPT ELSE GIT

\* C20: runCommand returns the captured stdout when the process exits with
\* zero; when it exits with another status, runCommand fails and the failure
\* carries the program, the exit code and the captured stderr text.
C20_CommandFailureCarriesStderr ==
    spawnResult.started =>
       IF spawnResult.success
       THEN IF ProgramRun = FILES_TO_PROMPT
            THEN filesToPromptOutput = spawnResult.stdout
            ELSE Step("clone", "ok") \in Range(trace)
       ELSE /\ pipeline = "Failure"
            /\ caught.exitCode = spawnResult.exitCode
            /\ caught.program = ProgramRun
            /\ caught.stderr = spawnResult.stderr

\* C21: two sources with different names never share a workspace: the
\* workspace of the current call is not the workspace of any source of the
\* queue that has another name.
C21_WorkspacePerName ==
    tempRepoPath # NoPath =>
       \A i \in 1..Len(sourcesToProcess) :
          LET other == sourcesToProcess[i].name
          IN  (other.t = "string" /\ other # sourcesToProcess[sourceIndex].name)
                 => TempRepoPath(other.v) # tempRepoPath

\* the positions of the finished calls that had the given name and saved a text
SavedFor(name) ==
    {i \in 1..Len(saved) : sourcesToProcess[i].name = name /\ outcomes[i] = "Success"}

\* the greatest number of a non-empty set of numbers
Last(positions) == CHOOSE i \in positions : \A j \in positions : j <= i

\* the queue positions of the sources with the given name
SourcesNamed(name) == {i \in 1..Len(sourcesToProcess) : sourcesToProcess[i].name = name}

\* C22: sources of one batch that share a name are not deduplicated: when
\* two or more sources of the queue have the same name, each of them is
\* processed, and after the batch, if any of them succeeded, there is a
\* single output file for that name and it holds the text saved by the last
\* of them that succeeded.
C22_LastDuplicateWins ==
    pc = "done" =>
       \A i \in 1..Len(sourcesToProcess) :
          LET name == sourcesToProcess[i].name
          IN  Cardinality(SourcesNamed(name)) >= 2 =>
                 /\ SourcesNamed(name) \subseteq Range(invoked)
                 /\ SavedFor(name) # {} =>
                       /\ [name |-> ClaimedFilename(name.v),
                            content |-> saved[Last(SavedFor(name))]] \in outputFiles
                       /\ Cardinality({f \in outputFiles : f.name = ClaimedFilename(name.v)}) = 1

\* the number of file arguments the loader has skipped
SkippedFiles == NumberOf(FALSE, queued)

\* C23: configuration files the loader skips are never counted: while the
\* loader works the counters stay as they are, whatever it finds (a
\* malformed file included); the number of sources attempted is the number
\* of files handled less the number skipped; and at the summary
\* successCount + failureCount is that number, so that a skipped a.json and
\* a valid b.json whose source succeeds give attempted 1, succeeded 1,
\* failed 0.
C23_SkippedFilesNotCounted ==
    /\ [][pc = "loadFiles" =>
            /\ successCount' = successCount
            /\ failureCount' = failureCount
            /\ outcomes' = outcomes
            /\ (sourceData'.kind = "malformed" /\ fileIndex' # fileIndex) =>
                  sourcesToProcess' = sourcesToProcess /\ hasErrors']_vars
    /\ [](Len(sourceFileArgs) > 0 =>
            /\ Len(sourcesToProcess) = Len(queued) - SkippedFiles
            /\ pc = "done" =>
                  /\ Len(queued) = Len(sourceFileArgs)
                  /\ Len(sourcesToProcess) >= 1
                  /\ successCount + failureCount = Len(sourceFileArgs) - SkippedFiles
                  /\ (queued = <<FALSE, TRUE>> /\ outcomes = <<"Success">>) =>
                        /\ Len(sourcesToProcess) = 1
                        /\ successCount = 1
                        /\ failureCount = 0)

C23_Witness ==
    /\ pc = "done"
    /\ queued = <<FALSE, TRUE>>
    /\ outcomes = <<"Success">>
    /\ Len(sourcesToProcess) = 1
    /\ successCount = 1
    /\ failureCount = 0
    /\ hasErrors

\* a field value that is present and not empty
NonEmptyField(value) == value.t # "undefined" /\ value.v # <<>>

\* C24: every source of the queue, and so every source processSource is
\* called with, has a name, a repository URL and a docs path that are
\* present and not empty, and an origin that is not empty; in file mode a
\* record with one of the fields missing or empty adds nothing to the queue,
\* and in environment mode a missing or empty variable leaves the queue
\* empty and no call is made.
C24_OnlyCompleteSourcesQueued ==
    /\ []( /\ \A i \in 1..Len(sourcesToProcess) :
                /\ NonEmptyField(sourcesToProcess[i].name)
                /\ NonEmptyField(sourcesToProcess[i].repo)
                /\ NonEmptyField(sourcesToProcess[i].path)
                /\ sourcesToProcess[i].sourceOrigin # <<>>
           /\ Range(invoked) \subseteq 1..Len(sourcesToProcess)
           /\ (Len(sourceFileArgs) = 0 /\ <<>> \in {env.REPO_URL, env.PROJECT_NAME, env.DOCS_DIR}) =>
                 sourcesToProcess = <<>> /\ invoked = <<>>)
    /\ [][(pc = "loadFiles" /\ fileIndex' # fileIndex /\ sourceData'.kind = "object"
            /\ \E value \in {sourceData'.name, sourceData'.repo, sourceData'.path} :
                  ~NonEmptyField(value))
           => sourcesToProcess' = sourcesToProcess /\ queued' = Append(queued, FALSE)]_vars

C24_Witness ==
    /\ pc = "loadFiles"
    /\ queued = <<TRUE, FALSE>>
    /\ sourceData.kind = "object"
    /\ sourceData.name = JString(<<>>)
    /\ Len(sourcesToProcess) = 1

\* C25: an exception that escapes processSource is caught by the batch
\* loop: the source is counted as failed and not as succeeded, and the loop
\* goes on: the next source of the queue is started, and at the summary
\* every source after the one that threw has been attempted.
C25_EscapedExceptionIsCounted ==
    /\ [][(pc = "returned" /\ pipeline = "Rejected") =>
            /\ failureCount' = failureCount + 1
            /\ successCount' = successCount
            /\ pc' = "batch"
            /\ sourceIndex' = sourceIndex + 1]_vars
    /\ []( /\ failureCount >= NumberOf("Rejected", outcomes)
           /\ successCount <= Len(outcomes) - NumberOf("Rejected", outcomes)
           /\ (pc = "batch" /\ sourceIndex <= Len(sourcesToProcess)) => ENABLED ProcessSourceBegin
           /\ pc = "done" =>
                 \A i \in 1..Len(outcomes) :
                    outcomes[i] = "Rejected" =>
                       \A j \in (i + 1)..Len(sourcesToProcess) : j \in Range(invoked))

C25_Witness ==
    /\ pc = "done"
    /\ outcomes = <<"Rejected", "Success">>
    /\ failureCount = 1
    /\ successCount = 1
    /\ invoked = <<1, 2>>

\* the extraction step of the current call has run
ExtractionRun == "extract" \in StepNames(trace)

\* C26: the extraction step tells its two failure causes apart: the
\* "command not found" diagnostic is printed if and only if the extraction
\* tool could not be started because it is missing; it is not printed when
\* the tool ran and exited with a non-zero status.
C26_ToolMissingDiagnostic ==
    ExtractionRun =>
       /\ ("commandNotFound" \in console) <=> ~spawnResult.started
       /\ (spawnResult.started /\ ~spawnResult.success) => "commandNotFound" \notin console

\* the reason the message of a reported error states
ReportedReason(error) ==
    CASE error.kind = "Failed to clone repository" -> "CloneFailed"
      [] error.kind = "SpawnFailed" /\ error.program = GIT -> "CloneFailed"
      [] error.kind = "Documentation directory not found" -> "DocsPathMissing"
      [] error.kind = "files-to-prompt did not produce any output" -> "NoDocumentationExtracted"
      [] error.kind = "files-to-prompt execution failed" -> "ExtractionCommandFailed"
      [] error.kind = "SpawnFailed" /\ error.program = FILES_TO_PROMPT -> "ExtractionCommandFailed"
      [] error.kind \in {"GeminiFailed:transport", "GeminiFailed:noContent"} -> "GenerationFailed"
      [] error.kind = "Failed to save cheatsheet" -> "PersistFailed"
      [] error.kind = "mkdir failed" -> "WorkspaceFailed"
      [] OTHER -> "none"

\* the step of the current call that failed, and what went wrong in it
FailedStep == StepsRun[Len(StepsRun)].step

ReasonOfFailedStep ==
    CASE FailedStep = "prepare" -> "WorkspaceFailed"
      [] FailedStep = "clone" -> "CloneFailed"
      [] FailedStep = "validate" -> "DocsPathMissing"
      [] FailedStep = "extract" ->
            IF spawnResult.started /\ spawnResult.success
            THEN "NoDocumentationExtracted"
            ELSE "ExtractionCommandFailed"
      [] FailedStep = "generate" -> "GenerationFailed"
      [] FailedStep = "persist" -> "PersistFailed"

\* C27: the failure reported for a source names the step that failed: a
\* failed clone is reported as CloneFailed, a docs path that does not exist
\* as DocsPathMissing, an empty extraction as NoDocumentationExtracted, a
\* failed generation as GenerationFailed and a failed write as
\* PersistFailed; as every step has a reason of its own, no two steps
\* report the same one.
C27_FailureNamesTheStep ==
    pipeline = "Failure" =>
       /\ StepsRun # <<>>
       /\ StepsRun[Len(StepsRun)].result = "failed"
       /\ ReportedReason(caught) = ReasonOfFailedStep

C27_Witness ==
    /\ pc = "returned"
    /\ pipeline = "Failure"
    /\ FailedStep = "persist"
    /\ ReportedReason(caught) = "PersistFailed"

\* C28: the sources are processed one at a time.  At most one generation
\* request is in flight, and only while the one running call awaits it; a
\* call starts only when no request is in flight and every earlier call has
\* ended, its awaited generation and its cleanup included; and a workspace
\* is created only by the preparation step of the one running call, for
\* that call's path, so that no two calls have a workspace in use at once.
C28_OneSourceAtATime ==
    /\ [](/\ inFlight \in {0, 1}
          /\ inFlight = 1 <=> pc = "awaiting"
          /\ pc = "awaiting" => pipeline = "running"
          /\ pipeline = "idle" <=> pc \in {"start", "loadFiles", "loadEnv", "batch", "done", "exited"}
          /\ Len(invoked) - Len(outcomes) = IF pipeline = "idle" THEN 0 ELSE 1)
    /\ [][Len(invoked') > Len(invoked) =>
            /\ pc = "batch"
            /\ inFlight = 0
            /\ pipeline = "idle"
            /\ Len(outcomes) = Len(invoked)
            /\ Len(invoked) > 0 => outcomes[Len(outcomes)] \in {"Success", "Failure", "Rejected"}]_vars
    /\ [][Len(outcomes') > Len(outcomes) =>
            /\ pc = "returned"
            /\ inFlight = 0
            /\ pipeline # "Rejected" => trace[Len(trace)].step = "cleanup"]_vars
    /\ [][~(tempDirs' \subseteq tempDirs) =>
            /\ pc = "prepare"
            /\ pipeline = "running"
            /\ tempDirs' \ tempDirs = {tempRepoPath}]_vars

C28_Witness ==
    /\ pc = "awaiting"
    /\ inFlight = 1
    /\ sourceIndex = 2
    /\ invoked = <<1, 2>>
    /\ outcomes = <<"Success">>
    /\ tempRepoPath \in tempDirs

\* C29: the final removal of the workspace never changes the outcome of
\* the source.  The cleanup step leaves the result of the call, the caught
\* error and the output directory as they were and always returns; when the
\* removal failed the call has still not rejected, it is a success exactly
\* when its document was persisted, and such a success is counted as one.
CleanupFailed == pc = "returned" /\ "cleanupWarning" \in console

C29_CleanupNeverChangesOutcome ==
    /\ [][pc = "cleanup" =>
            /\ pc' = "returned"
            /\ pipeline' = pipeline
            /\ caught' = caught
            /\ OutputNow' = OutputNow]_vars
    /\ [](CleanupFailed =>
            /\ pipeline \in {"Success", "Failure"}
            /\ trace[Len(trace)] = Step("cleanup", "failed")
            /\ tempRepoPath \in tempDirs
            /\ pipeline = "Success" <=> Step("persist", "ok") \in Range(trace))
    /\ [][CleanupFailed /\ Step("persist", "ok") \in Range(trace) =>
            /\ outcomes' = Append(outcomes, "Success")
            /\ successCount' = successCount + 1
            /\ failureCount' = failureCount]_vars

C29_Witness ==
    /\ CleanupFailed
    /\ pipeline = "Success"
    /\ Step("persist", "ok") \in Range(trace)
    /\ tempRepoPath \in tempDirs
    /\ outputFiles # {}

\* C30: preparation of the workspace.  The step runs before the clone has
\* started.  A leftover directory of the same name is removed first: when
\* its removal fails, that is only a warning, the call goes on to the clone
\* with the directory in place; when no removal failed, either the directory
\* is created and the call goes on to the clone, or its creation failed and
\* then no directory is left, the leftover having been removed before.  The
\* clone is entered only after a finished preparation and is then attempted.
C30_LeftoverRemovalIsAdvisory ==
    /\ [][pc = "prepare" =>
            /\ "clone" \notin StepNames(trace)
            /\ "cleanWarning" \in console' =>
                  /\ tempRepoPath \in tempDirs
                  /\ tempRepoPath \in tempDirs'
                  /\ pipeline' = "running"
                  /\ pc' = "clone"
            /\ "cleanWarning" \notin console' =>
                  \/ /\ pc' = "clone"
                     /\ pipeline' = "running"
                     /\ tempRepoPath \in tempDirs'
                  \/ /\ pc' = "cleanup"
                     /\ pipeline' = "Failure"
                     /\ caught'.kind = "mkdir failed"
                     /\ tempRepoPath \notin tempDirs']_vars
    /\ [](pc = "clone" =>
            /\ trace[Len(trace)] = Step("prepare", "ok")
            /\ tempRepoPath \in tempDirs
            /\ pipeline = "running")
    /\ [][pc = "clone" => "clone" \in StepNames(trace')]_vars

C30_Witness ==
    /\ "cleanWarning" \in console
    /\ Step("prepare", "ok") \in Range(trace)
    /\ Step("clone", "ok") \in Range(trace)
    /\ pc = "validate"

\* the files of the output directory that carry the current source's file name
OutputOfCurrentSource ==
    {f \in outputFiles : f.name = CheatsheetFilename(sourcesToProcess[sourceIndex].name.v)}

\* C31: when a call has ended in Success, the output file of its source
\* holds exactly the text the generation call returned for it, which is the
\* text taken from the response: nothing added, removed or altered, leading
\* and trailing white space included.
C31_OutputIsGeneratedText ==
    pipeline = "Success" =>
       /\ ResponseHandled
       /\ cheatsheetContent = TextOfResponse
       /\ OutputOfCurrentSource =
             {[name |-> CheatsheetFilename(sourcesToProcess[sourceIndex].name.v),
               content |-> TextOfResponse]}

C31_Witness ==
    /\ pipeline = "Success"
    /\ pc = "returned"
    /\ TextOfResponse = <<" ", "O", "k", "a", "y", "\n", "#", "#", " ", "B", "\n">>
    /\ \E f \in OutputOfCurrentSource : f.content = TextOfResponse /\ f.content # trim(f.content)

\* how often a step of the current call was begun
TimesIssued(name) == Cardinality({i \in 1..Len(trace) : trace[i].step = name})

\* C32: no retries.  Within one call the clone command, the extraction
\* command, the generation request and the write of the output are each
\* issued at most once, whether they succeed or fail: a step that failed is
\* followed by the cleanup and never by itself or by an earlier step, a
\* request is sent only by a call that has sent none, and the output is
\* written only by a call that has not tried to write before.
C32_NoRetries ==
    /\ [](\A name \in {"clone", "extract", "generate", "persist"} : TimesIssued(name) <= 1)
    /\ [][(pc \in {"clone", "extract", "awaiting", "save"} /\ trace'[Len(trace')].result = "failed") =>
            /\ pc' = "cleanup"
            /\ pipeline' = "Failure"]_vars
    /\ [][pc' \in {"clone", "extract", "generate", "save"} /\ pc' # pc =>
            (CASE pc' = "clone" -> TimesIssued("clone") = 0
               [] pc' = "extract" -> TimesIssued("extract") = 0
               [] pc' = "generate" -> TimesIssued("generate") = 0
               [] pc' = "save" -> TimesIssued("persist") = 0)]_vars
    /\ [][(pc \in {"clone", "extract", "generate", "save"}) => (pc' # pc)]_vars
    /\ [][inFlight' > inFlight => TimesIssued("generate") = 0 /\ pc = "generate"]_vars
    /\ [][OutputNow' # OutputNow => TimesIssued("persist") = 0 /\ pc = "save"]_vars

C32_Witness ==
    /\ pc = "returned"
    /\ pipeline = "Failure"
    /\ trace = <<Step("prepare", "ok"), Step("clone", "failed"), Step("cleanup", "ok")>>
    /\ spawnResult.started
    /\ ~spawnResult.success

\* a text of white space only, or no text at all
OnlyWhiteSpace(text) == \A i \in 1..Len(text) : text[i] \in {" ", "\n", "\t", "\r"}

\* the current call got a response whose text, after both attempts to take
\* it, is empty or white space only
EmptyTextReceived == ResponseHandled /\ OnlyWhiteSpace(TextOfResponse)

\* C33: when the text taken from the response is empty or white space only,
\* generation fails whatever the diagnostic fields say, a finish reason of
\* STOP without block reason included: the call ends in Failure at the
\* generate step and does not reach the persist step.  Hence no file is
\* ever written with empty or white-space-only content.
C33_EmptyTextAlwaysFails ==
    /\ [](EmptyTextReceived =>
            /\ pc \in {"cleanup", "returned"}
            /\ pipeline = "Failure"
            /\ caught.kind = "GeminiFailed:noContent"
            /\ trace[5] = Step("generate", "failed")
            /\ "persist" \notin StepNames(trace)
            /\ cheatsheetContent = NoText)
    /\ [][\A f \in outputFiles' \ outputFiles : ~OnlyWhiteSpace(f.content)]_vars

C33_Witness ==
    /\ EmptyTextReceived
    /\ pc = "returned"
    /\ ~response.textThrows
    /\ response.text = <<" ", "\n">>
    /\ response.finishReason = "STOP"
    /\ response.blockReason = "none"
    /\ pipeline = "Failure"

\* C34: at the summary the message "All sources processed successfully"
\* is printed only if no configuration file was skipped and the call of
\* every attempted source ended in Success; when the call of any source
\* failed at any step the message is "Some operations failed".
C34_ClosingMessageFollowsOutcomes ==
    pc = "done" =>
       /\ closing = "allOk" => ~hasErrors /\ \A i \in 1..Len(outcomes) : outcomes[i] = "Success"
       /\ (\E i \in 1..Len(outcomes) : outcomes[i] # "Success") => closing = "someFailed"

\* the part of C34 that the counters do support: a skipped file, or a call
\* whose promise rejected, gives the warning
C34_WarningOnSkippedOrRejected ==
    pc = "done" =>
       (closing = "someFailed" <=> hasErrors \/ \E i \in 1..Len(outcomes) : outcomes[i] = "Rejected")

\* C35: the two loading modes are exclusive.  When at least one
\* configuration-file argument is given, the environment is never read for a
\* source: every queued source comes from one of the files (its origin is
\* that file's base name and never "environment variables"), there is one
\* per accepted file, and when every file was refused the run ends with exit
\* status 1 and an empty queue, even with REPO_URL, PROJECT_NAME and DOCS_DIR
\* all set.
C35_ModesAreExclusive ==
    Len(sourceFileArgs) > 0 =>
       /\ pc # "loadEnv"
       /\ "usage" \notin console
       /\ Len(sourcesToProcess) = Cardinality({i \in 1..Len(queued) : queued[i]})
       /\ \A i \in 1..Len(sourcesToProcess) :
             /\ sourcesToProcess[i].sourceOrigin #
                   <<"e", "n", "v", "i", "r", "o", "n", "m", "e", "n", "t", " ",
                     "v", "a", "r", "i", "a", "b", "l", "e", "s">>
             /\ \E k \in 1..Len(sourceFileArgs) :
                   sourcesToProcess[i].sourceOrigin = BaseName(sourceFileArgs[k])
       /\ (NoFileValid /\ pc # "loadFiles") =>
             /\ pc = "exited"
             /\ exitStatus = "1"
             /\ sourcesToProcess = <<>>
             /\ invoked = <<>>

C35_Witness ==
    /\ NoFileValid
    /\ pc = "exited"
    /\ geminiApiKey # <<>>
    /\ env.REPO_URL # <<>>
    /\ env.PROJECT_NAME # <<>>
    /\ env.DOCS_DIR # <<>>
    /\ sourcesToProcess = <<>>

\* the sources of the batch whose call has ended in Success, each of which
\* has written its output file
Written == {i \in 1..Len(outcomes) : outcomes[i] = "Success"}

\* C36: only sources with identical names can overwrite each other's
\* output: two sources of one batch whose names differ never write to the
\* same output file.
C36_DifferentNamesDifferentFiles ==
    \A i \in Written : \A j \in Written :
       sourcesToProcess[i].name.v # sourcesToProcess[j].name.v =>
          CheatsheetFilename(sourcesToProcess[i].name.v) #
             CheatsheetFilename(sourcesToProcess[j].name.v)

\* the reasons the current call has logged for a generation without text
ReasonsLogged == console \cap {"blocked", "stopped", "unknown"}

\* C37: when the text of the response is empty, the reason reported is the
\* block reason of the prompt whenever there is one, also when the first
\* candidate has a finish reason other than STOP; the abnormal finish is
\* reported only when there is no block reason, and without either the
\* reason is reported as unknown.
C37_BlockReasonTakesPrecedence ==
    EmptyTextReceived =>
       ReasonsLogged =
          (IF response.blockReason # "none" THEN {"blocked"}
           ELSE IF response.candidates > 0 /\ response.finishReason \notin {"none", "STOP"}
           THEN {"stopped"}
           ELSE {"unknown"})

C37_Witness ==
    /\ EmptyTextReceived
    /\ response.blockReason = "OTHER"
    /\ response.candidates > 0
    /\ response.finishReason = "SAFETY"
    /\ ReasonsLogged = {"blocked"}
    /\ pc = "returned"

====
